---- MODULE Spec2Model ----
(***************************************************************************)
(* Stale price detection and cross-run failure tracking                    *)
(* (trading/stale_price_detector.py).                                      *)
(*                                                                         *)
(* Prices are integers in units of 0.00005 dollar (half the comparison     *)
(* tolerance), volumes are naturals, an average volume is the pair         *)
(* [sum, n] compared by cross-multiplication, calendar dates are proleptic *)
(* ordinals (ordinal 1 is Monday 0001-01-01) and trading dates of the      *)
(* price table are the integers 1..10.                                     *)
(***************************************************************************)
EXTENDS Integers, Sequences, FiniteSets, TLC

\* ------------------------------------------------------------------ bounds
Symbols == {"AAA", "BBB"}
\* the symbols in the order of SQL's ORDER BY symbol
SymbolOrder == <<"AAA", "BBB">>
\* the clock starts on Thursday 0001-01-04 and may reach MaxDay (a Saturday)
StartDay == 4
MaxDay == 6
\* a run that flags a symbol is started only while its stored count is below this
MaxCount == 5
\* longest close series given to the same-price check
MaxLen == 6
\* most securities in one stale price report given to the validator
MaxBatch == 2
\* most log_removal calls in a row
MaxCalls == 4

\* -------------------------------------------------------- program constants
PENNY_STOCK_THRESHOLD == 20000
EXTREME_PENNY_THRESHOLD == 200
STALE_DAYS_THRESHOLD == 5
LOW_VOLUME_THRESHOLD == 1000
PRICE_TOLERANCE == 2
CONSECUTIVE_FAILURES_REQUIRED == 5

\* Python's None where a date string is expected
None == <<>>

VARIABLES
    today,        \* date.today(), an ordinal
    required,     \* the module global CONSECUTIVE_FAILURES_REQUIRED
    file,         \* contents of STATE_FILE
    pc,           \* position of the running invocation
    all_flagged,  \* generate_stale_price_report: all_flagged / stale_securities
    state,        \* apply_failure_tracking: state
    new_counts,   \* apply_failure_tracking: new_counts
    confirmed,    \* apply_failure_tracking: confirmed (returned list)
    result,       \* what generate_stale_price_report returned
    startFile,    \* history: STATE_FILE as it was when the invocation began
    killed,       \* history: the killed invocation that the current one retries
    streak,       \* history: per symbol, its flagged runs in a row and their distinct days
    procs,        \* two concurrent invocations: each one's position and locals
    det,          \* one invocation on a given database: the database and watchlist
    series,       \* one scan of a close series: the closes and what the scan computed
    val,          \* one validation call: its inputs and the result returned
    batch,        \* batch_validate_securities and the logging of its results
    log,          \* contents of the removal log, and the last log_removal call
    sig           \* the price loop on one symbol: its data and the signal appended

vars == <<today, required, file, pc, all_flagged, state, new_counts,
          confirmed, result, startFile, killed, streak, procs, det, series, val,
          batch, log, sig>>

\* the variables the report pipeline of one process does not touch
others == <<procs, det, series, val, batch, log, sig>>

\* ------------------------------------------------------------ date helpers
\* date.weekday(): Monday = 0 ... Sunday = 6
Weekday(d) == (d + 6) % 7

\* variant: only Sunday counts as a weekend day
IsWeekendSundayOnly(d) == Weekday(d) > 5

\* today.weekday() >= 5: Saturday = 5, Sunday = 6
IsWeekend(d) == Weekday(d) >= 5

\* date.isoformat() for days of January 0001: <<year, month, day>>
Isoformat(d) == <<1, 1, d>>

\* ------------------------------------------------------- sequence helpers
RECURSIVE SumSeq(_)
SumSeq(q) == IF q = <<>> THEN 0 ELSE Head(q) + SumSeq(Tail(q))

MapField(q, f) == [i \in 1..Len(q) |-> q[i][f]]

Abs(x) == IF x < 0 THEN 0 - x ELSE x

SetMax(S) == CHOOSE x \in S : \A y \in S : y <= x
SetMin(S) == CHOOSE x \in S : \A y \in S : x <= y

\* the n largest elements of S (all of S when it has fewer)
RECURSIVE Largest(_, _)
Largest(S, n) ==
    IF n = 0 \/ S = {} THEN {}
    ELSE {SetMax(S)} \cup Largest(S \ {SetMax(S)}, n - 1)

\* numpy.mean as the exact fraction sum/n
Mean(q) == [sum |-> SumSeq(q), n |-> Len(q)]
AvgLess(a, b) == a.sum * b.n < b.sum * a.n
AvgBelow(a, k) == a.sum < k * a.n

\* '; '.join(reasons)
RECURSIVE Join(_)
Join(rs) ==
    IF rs = <<>> THEN <<>>
    ELSE IF Len(rs) = 1 THEN rs
    ELSE <<Head(rs), "; ">> \o Join(Tail(rs))

\* ---------------------------------------------------- detect_stale_prices
\* SELECT DISTINCT date FROM daily_prices ORDER BY date DESC LIMIT 10
AllDates(db) ==
    UNION {{db.prices[s][i].date : i \in 1..Len(db.prices[s])} : s \in Symbols}
RecentDates(db) == Largest(AllDates(db), 10)

\* SELECT ... WHERE date >= earliest_date ORDER BY symbol, date, grouped
SymbolData(db, sym) ==
    LET earliest_date == SetMin(RecentDates(db))
        InWindow(o) == o.date >= earliest_date
    IN  SelectSeq(db.prices[sym], InWindow)
DbSymbols(db) == {s \in Symbols : SymbolData(db, s) # <<>>}

\* Check 1: the loop over closes[1..]
RECURSIVE ConsecutiveLoop(_, _, _, _)
ConsecutiveLoop(closes, i, consecutive_count, max_consecutive) ==
    IF i > Len(closes) THEN max_consecutive
    ELSE IF Abs(closes[i] - closes[i-1]) < PRICE_TOLERANCE
         THEN ConsecutiveLoop(closes, i + 1, consecutive_count + 1,
                  IF consecutive_count + 1 > max_consecutive
                  THEN consecutive_count + 1 ELSE max_consecutive)
         ELSE ConsecutiveLoop(closes, i + 1, 1, max_consecutive)

\* variant: the count is not reset when the price moves
RECURSIVE ConsecutiveLoopNoReset(_, _, _, _)
ConsecutiveLoopNoReset(closes, i, consecutive_count, max_consecutive) ==
    IF i > Len(closes) THEN max_consecutive
    ELSE IF Abs(closes[i] - closes[i-1]) < PRICE_TOLERANCE
         THEN ConsecutiveLoopNoReset(closes, i + 1, consecutive_count + 1,
                  IF consecutive_count + 1 > max_consecutive
                  THEN consecutive_count + 1 ELSE max_consecutive)
         ELSE ConsecutiveLoopNoReset(closes, i + 1, consecutive_count,
                                     max_consecutive)
MaxConsecutiveNoReset(closes) == ConsecutiveLoopNoReset(closes, 2, 1, 1)

\* consecutive_count = 1, max_consecutive = 1, then the loop from index 1
MaxConsecutive(closes) == ConsecutiveLoop(closes, 2, 1, 1)

ZeroVolDays(volumes) == Cardinality({i \in 1..Len(volumes) : volumes[i] = 0})

\* variant: the plain penny rule is tried before the low-volume penny rule
RiskLevelPennyFirst(is_extreme_penny, is_penny, is_stale, zero_vol_days, avg_volume) ==
    IF is_extreme_penny \/ zero_vol_days >= 2 THEN "HIGH"
    ELSE IF is_penny THEN "MEDIUM"
    ELSE IF is_penny /\ AvgBelow(avg_volume, LOW_VOLUME_THRESHOLD) THEN "HIGH"
    ELSE IF is_stale /\ AvgBelow(avg_volume, LOW_VOLUME_THRESHOLD) THEN "MEDIUM"
    ELSE "LOW"

\* "Risk assessment": the if/elif chain
RiskLevel(is_extreme_penny, is_penny, is_stale, zero_vol_days, avg_volume) ==
    IF is_extreme_penny \/ zero_vol_days >= 2 THEN "HIGH"
    ELSE IF is_penny /\ AvgBelow(avg_volume, LOW_VOLUME_THRESHOLD) THEN "HIGH"
    ELSE IF is_penny THEN "MEDIUM"
    ELSE IF is_stale /\ AvgBelow(avg_volume, LOW_VOLUME_THRESHOLD) THEN "MEDIUM"
    ELSE "LOW"

\* variant: the stale-run message comes first
ReasonsStaleFirst(is_extreme_penny, is_penny, is_stale, zero_vol_days) ==
    (IF is_stale THEN <<"consecutive days same price">> ELSE <<>>)
    \o (IF is_extreme_penny THEN <<"Extreme penny stock">>
        ELSE IF is_penny THEN <<"Penny stock">> ELSE <<>>)
    \o (IF zero_vol_days >= 2 THEN <<"zero-volume days">> ELSE <<>>)

\* "Determine flag reason": the messages, without their numbers
Reasons(is_extreme_penny, is_penny, is_stale, zero_vol_days) ==
    (IF is_extreme_penny THEN <<"Extreme penny stock">>
     ELSE IF is_penny THEN <<"Penny stock">> ELSE <<>>)
    \o (IF is_stale THEN <<"consecutive days same price">> ELSE <<>>)
    \o (IF zero_vol_days >= 2 THEN <<"zero-volume days">> ELSE <<>>)

\* the body of the loop over symbol_data.items(): the signals (none or one)
\* appended for one symbol, given the value of STALE_DAYS_THRESHOLD
PriceSignalsAt(sym, data, stale_days_threshold) ==
    LET closes == MapField(data, "close")
        volumes == MapField(data, "volume")
        last_price == closes[Len(closes)]
        avg_volume == Mean(volumes)
        max_consecutive == MaxConsecutive(closes)
        is_stale == max_consecutive >= stale_days_threshold
        is_penny == last_price < PENNY_STOCK_THRESHOLD
        is_extreme_penny == last_price < EXTREME_PENNY_THRESHOLD
        zero_vol_days == ZeroVolDays(volumes)
    IN  IF Len(data) < 5 THEN <<>>
        ELSE IF ~is_stale /\ ~is_penny THEN <<>>
        ELSE << [symbol |-> sym,
                 price |-> last_price,
                 consecutive_days |-> IF is_stale THEN max_consecutive ELSE 0,
                 avg_volume |-> avg_volume,
                 zero_volume_days |-> zero_vol_days,
                 risk_level |-> RiskLevel(is_extreme_penny, is_penny, is_stale,
                                          zero_vol_days, avg_volume),
                 reasons |-> Reasons(is_extreme_penny, is_penny, is_stale,
                                     zero_vol_days),
                 is_penny_stock |-> is_penny,
                 is_stale_price |-> is_stale,
                 is_no_data |-> FALSE,
                 last_date |-> data[Len(data)].date] >>

\* the loop body under the module's STALE_DAYS_THRESHOLD
PriceSignals(sym, data) == PriceSignalsAt(sym, data, STALE_DAYS_THRESHOLD)

\* Check 3: the body of the loop over watchlist_symbols
NoDataSignals(db, sym) ==
    LET recent_dates == RecentDates(db)
        recent_cutoff == IF Cardinality(recent_dates) > 4
                         THEN SetMin(Largest(recent_dates, 5))
                         ELSE SetMin(recent_dates)
        data == SymbolData(db, sym)
    IN  IF sym \notin DbSymbols(db)
        THEN << [symbol |-> sym, price |-> 0, consecutive_days |-> 0,
                 avg_volume |-> [sum |-> 0, n |-> 1],
                 zero_volume_days |-> 0, risk_level |-> "HIGH",
                 reasons |-> <<"No recent data from Yahoo Finance (possibly delisted)">>,
                 is_penny_stock |-> FALSE, is_stale_price |-> FALSE,
                 is_no_data |-> TRUE, last_date |-> 0] >>
        ELSE IF data[Len(data)].date < recent_cutoff
        THEN << [symbol |-> sym, price |-> data[Len(data)].close,
                 consecutive_days |-> 0,
                 avg_volume |-> Mean(MapField(data, "volume")),
                 zero_volume_days |-> 0, risk_level |-> "HIGH",
                 reasons |-> <<"Data stopped updating">>,
                 is_penny_stock |-> FALSE, is_stale_price |-> FALSE,
                 is_no_data |-> TRUE, last_date |-> data[Len(data)].date] >>
        ELSE <<>>

\* one loop over a sequence of symbols, appending each symbol's signals
RECURSIVE PriceLoop(_, _)
PriceLoop(db, syms) ==
    IF syms = <<>> THEN <<>>
    ELSE (IF Head(syms) \in DbSymbols(db)
          THEN PriceSignals(Head(syms), SymbolData(db, Head(syms)))
          ELSE <<>>) \o PriceLoop(db, Tail(syms))

RECURSIVE NoDataLoop(_, _)
NoDataLoop(db, syms) ==
    IF syms = <<>> THEN <<>>
    ELSE NoDataSignals(db, Head(syms)) \o NoDataLoop(db, Tail(syms))

\* list.sort(key=(risk_order, avg_volume)): stable
RiskOrder(r) == CASE r = "HIGH" -> 0 [] r = "MEDIUM" -> 1 [] r = "LOW" -> 2
\* variant: larger volumes first
KeyLessVolumeDescending(a, b) ==
    \/ RiskOrder(a.risk_level) < RiskOrder(b.risk_level)
    \/ /\ RiskOrder(a.risk_level) = RiskOrder(b.risk_level)
       /\ AvgLess(b.avg_volume, a.avg_volume)

KeyLess(a, b) ==
    \/ RiskOrder(a.risk_level) < RiskOrder(b.risk_level)
    \/ /\ RiskOrder(a.risk_level) = RiskOrder(b.risk_level)
       /\ AvgLess(a.avg_volume, b.avg_volume)

\* insert x after every element that does not sort after it
RECURSIVE InsertSorted(_, _)
InsertSorted(q, x) ==
    IF q = <<>> THEN <<x>>
    ELSE IF KeyLess(x, Head(q)) THEN <<x>> \o q
    ELSE <<Head(q)>> \o InsertSorted(Tail(q), x)

RECURSIVE StableSort(_)
StableSort(q) ==
    IF q = <<>> THEN <<>>
    ELSE InsertSorted(StableSort(SubSeq(q, 1, Len(q) - 1)), q[Len(q)])

\* variant: any history at all is enough
DetectStalePricesAnyHistory(db, watchlist) ==
    IF Cardinality(RecentDates(db)) < 1 THEN <<>>
    ELSE StableSort(PriceLoop(db, SymbolOrder) \o NoDataLoop(db, watchlist))

\* detect_stale_prices on a business day with the database present;
\* watchlist is the sequence in which the watchlist set is iterated
DetectStalePrices(db, watchlist) ==
    IF Cardinality(RecentDates(db)) < 5 THEN <<>>
    ELSE StableSort(PriceLoop(db, SymbolOrder) \o NoDataLoop(db, watchlist))


\* ------------------------------------------------- the state file on disk
\* kind: "missing" (no file), "empty" (truncated by open(..., 'w')),
\* "partial" (a flushed prefix of the document), "doc" (a whole document)
NoEntries == [s \in {} |-> 0]
FileOf(kind) == [kind |-> kind, last_run |-> None, failure_counts |-> NoEntries]
MissingFile == FileOf("missing")
DocOf(st) == [kind |-> "doc", last_run |-> st.last_run,
              failure_counts |-> st.failure_counts]

\* json.load of the file raises on anything but a whole document
Readable(f) == f.kind \in {"missing", "doc"}

load_tracking_state(f) ==
    IF f.kind = "doc"
    THEN [last_run |-> f.last_run, failure_counts |-> f.failure_counts]
    ELSE [last_run |-> None, failure_counts |-> NoEntries]

\* ------------------------------------------------- apply_failure_tracking
SymbolsOf(signals) == {signals[i].symbol : i \in 1..Len(signals)}

\* variant: the count is incremented twice
NextCountTwice(prev_count) == prev_count + 2

\* prev.get('count', 0) + 1
NextCount(prev_count) == prev_count + 1

\* variant: a symbol flagged again after a recovery starts a new first_flagged
FlaggedEntryNewStreak(sec, failure_counts, today_str) ==
    LET sym == sec.symbol
        tracked == sym \in DOMAIN failure_counts
    IN  [count |-> NextCount(IF tracked THEN failure_counts[sym].count ELSE 0),
         first_flagged |-> IF tracked /\ failure_counts[sym].count > 0
                           THEN failure_counts[sym].first_flagged
                           ELSE today_str,
         reason |-> Join(sec.reasons)]

\* the entry written for a flagged signal
FlaggedEntry(sec, failure_counts, today_str) ==
    LET sym == sec.symbol
        tracked == sym \in DOMAIN failure_counts
    IN  [count |-> NextCount(IF tracked THEN failure_counts[sym].count ELSE 0),
         first_flagged |-> IF tracked THEN failure_counts[sym].first_flagged
                           ELSE today_str,
         reason |-> Join(sec.reasons)]

\* variant: a recovered symbol keeps its count
RecoveredEntryKeepsCount(prev) ==
    [count |-> prev.count, first_flagged |-> prev.first_flagged,
     reason |-> <<"Recovered">>]

\* the entry written for a tracked symbol that is not flagged today
RecoveredEntry(prev) ==
    [count |-> 0, first_flagged |-> prev.first_flagged, reason |-> <<"Recovered">>]

\* for sec in stale_securities: new_counts[sym] = {...}
RECURSIVE FlaggedLoop(_, _, _, _)
FlaggedLoop(signals, failure_counts, today_str, acc) ==
    IF signals = <<>> THEN acc
    ELSE FlaggedLoop(Tail(signals), failure_counts, today_str,
             (Head(signals).symbol :>
                  FlaggedEntry(Head(signals), failure_counts, today_str)) @@ acc)

\* variant: recovered symbols are dropped from the store
RecoveredLoopDrops(signals, failure_counts, acc) == acc

\* for sym in state['failure_counts']: new_counts.setdefault(sym, {...})
RecoveredLoop(signals, failure_counts, acc) ==
    LET recovered == {sym \in DOMAIN failure_counts : sym \notin SymbolsOf(signals)}
    IN  acc @@ [sym \in recovered |-> RecoveredEntry(failure_counts[sym])]

\* variant: each signal of a symbol increments the count again
RECURSIVE FlaggedLoopPerSignal(_, _, _, _)
FlaggedLoopPerSignal(signals, failure_counts, today_str, acc) ==
    IF signals = <<>> THEN acc
    ELSE FlaggedLoopPerSignal(Tail(signals), failure_counts, today_str,
             (Head(signals).symbol :>
                  FlaggedEntry(Head(signals), acc @@ failure_counts, today_str))
             @@ acc)
NewCountsPerSignal(signals, failure_counts, today_str) ==
    RecoveredLoop(signals, failure_counts,
                  FlaggedLoopPerSignal(signals, failure_counts, today_str, NoEntries))

\* new_counts after both loops of apply_failure_tracking
NewCounts(signals, failure_counts, today_str) ==
    RecoveredLoop(signals, failure_counts,
                  FlaggedLoop(signals, failure_counts, today_str, NoEntries))

\* variant: confirmed one run early
IsConfirmedEarly(sec, counts, req) ==
    (IF sec.symbol \in DOMAIN counts THEN counts[sec.symbol].count ELSE 0) >= req - 1

\* variant: strict comparison
IsConfirmedStrict(sec, counts, req) ==
    (IF sec.symbol \in DOMAIN counts THEN counts[sec.symbol].count ELSE 0) > req

\* new_counts.get(symbol, {}).get('count', 0) >= CONSECUTIVE_FAILURES_REQUIRED
IsConfirmed(sec, counts, req) ==
    (IF sec.symbol \in DOMAIN counts THEN counts[sec.symbol].count ELSE 0) >= req

\* sec['consecutive_failures'] = ...; sec['first_flagged'] = ...
Annotate(sec, counts) ==
    [f \in (DOMAIN sec) \cup {"consecutive_failures", "first_flagged"} |->
        IF f = "consecutive_failures" THEN counts[sec.symbol].count
        ELSE IF f = "first_flagged" THEN counts[sec.symbol].first_flagged
        ELSE sec[f]]

ConfirmedOf(signals, counts, req) ==
    LET Keep(sec) == IsConfirmed(sec, counts, req)
        kept == SelectSeq(signals, Keep)
    IN  [i \in 1..Len(kept) |-> Annotate(kept[i], counts)]

\* the caller's list after the confirmed dicts were annotated in place
AnnotatedInPlace(signals, counts, req) ==
    [i \in 1..Len(signals) |->
        IF IsConfirmed(signals[i], counts, req)
        THEN Annotate(signals[i], counts) ELSE signals[i]]


\* ------------------------------------------------------------ the inputs
Obs(d, c, v) == [date |-> d, close |-> c, volume |-> v]

\* no rows for the symbol
NoRows == <<>>
\* five moving closes above $1.00 on the latest trading dates
Healthy == [i \in 1..5 |-> Obs(5 + i, 30000 + 100 * i, 5000)]
\* five moving closes below $1.00 on the latest trading dates
Penny == [i \in 1..5 |-> Obs(5 + i, 10000 + 100 * i, 5000)]
\* five identical closes, no volume, on the five oldest trading dates
Stopped == [i \in 1..5 |-> Obs(i, 40000, 0)]
\* two rows only
Short == [i \in 1..2 |-> Obs(8 + i, 30000 + 100 * i, 5000)]

Db(a, b) == [exists |-> TRUE, prices |-> ("AAA" :> a) @@ ("BBB" :> b)]
NoDb == [exists |-> FALSE, prices |-> ("AAA" :> NoRows) @@ ("BBB" :> NoRows)]

\* the price databases of the runs: absent, too short, and every mix of
\* healthy and flagged symbols
Databases ==
    {NoDb, Db(NoRows, Short), Db(NoRows, Healthy)}
    \cup {Db(a, b) : a \in {Healthy, Penny, Stopped}, b \in {Healthy, Penny}}

\* the orders in which a watchlist set can be iterated (<<>>: no watchlist)
WatchlistOrders ==
    {<<>>} \cup {<<s>> : s \in Symbols}
    \cup {<<x[1], x[2]>> : x \in {y \in Symbols \X Symbols : y[1] # y[2]}}

\* what detect_stale_prices returns on a business day, per database that
\* exists and watchlist order
Detections ==
    {DetectStalePrices(db, watchlist) :
        db \in {d \in Databases : d.exists}, watchlist \in WatchlistOrders}

\* ------------------------------------------------------------ the machine
NoKill == [at |-> "none", old |-> MissingFile]
NoStreak == [runs |-> 0, days |-> 0, last |-> 0]

CountIn(f, sym) ==
    IF sym \in DOMAIN f.failure_counts THEN f.failure_counts[sym].count ELSE 0

\* the counts stay within the bound
Bounded(signals) == \A sym \in SymbolsOf(signals) : CountIn(file, sym) < MaxCount

\* history: the runs in a row in which a symbol was flagged
StreakAfter(signals) ==
    [s \in Symbols |->
        IF s \in SymbolsOf(signals)
        THEN [runs |-> streak[s].runs + 1,
              days |-> IF streak[s].runs > 0 /\ streak[s].last = today
                       THEN streak[s].days ELSE streak[s].days + 1,
              last |-> today]
        ELSE NoStreak]

EmptyState == load_tracking_state(MissingFile)

\* the variables of the other specifications, at rest
OthersIdle ==
    /\ procs = <<>>
    /\ det = <<>>
    /\ series = <<>>
    /\ val = <<>>
    /\ batch = <<>>
    /\ log = <<>>
    /\ sig = <<>>

Init ==
    /\ OthersIdle
    /\ today = StartDay
    /\ required = CONSECUTIVE_FAILURES_REQUIRED
    /\ file = MissingFile
    /\ pc = "idle"
    /\ all_flagged = <<>>
    /\ state = EmptyState
    /\ new_counts = NoEntries
    /\ confirmed = <<>>
    /\ result = "none"
    /\ startFile = MissingFile
    /\ killed = NoKill
    /\ streak = [s \in Symbols |-> NoStreak]

\* ---------------------------------------------- invocations run to the end
\* no invocation is running
Resting == {"idle", "done", "raised", "killed"}

\* generate_stale_price_report on a weekend: detect_stale_prices returns []
\* and the report function returns None
ReportWeekend ==
    /\ pc \in Resting
    /\ IsWeekend(today)
    /\ all_flagged' = <<>>
    /\ state' = EmptyState
    /\ new_counts' = NoEntries
    /\ confirmed' = <<>>
    /\ result' = "None"
    /\ startFile' = file
    /\ killed' = NoKill
    /\ pc' = "done"
    /\ UNCHANGED <<today, required, file, streak>>
    /\ UNCHANGED others

\* generate_stale_price_report on a business day
ReportBusinessDay(db_exists, detected) ==
    /\ pc \in Resting
    /\ ~IsWeekend(today)
    /\ startFile' = file
    /\ killed' = NoKill
    /\ IF ~db_exists \/ ~Readable(file)
       THEN \* get_db_connection raises FileNotFoundError, or json.load in
            \* load_tracking_state raises JSONDecodeError
            /\ pc' = "raised"
            /\ all_flagged' = <<>>
            /\ state' = EmptyState
            /\ new_counts' = NoEntries
            /\ confirmed' = <<>>
            /\ result' = "none"
            /\ UNCHANGED <<file, streak>>
       ELSE LET loaded == load_tracking_state(file)
                counts == NewCounts(detected, loaded.failure_counts,
                                    Isoformat(today))
            IN  /\ Bounded(detected)
                /\ new_counts' = counts
                /\ state' = [last_run |-> Isoformat(today),
                             failure_counts |-> counts]
                /\ file' = DocOf(state')
                /\ streak' = StreakAfter(detected)
                /\ confirmed' = ConfirmedOf(detected, counts, required)
                /\ all_flagged' = AnnotatedInPlace(detected, counts, required)
                /\ result' = "report"
                /\ pc' = "done"
    /\ UNCHANGED <<today, required>>
    /\ UNCHANGED others

\* midnight passes between two invocations
Tick ==
    /\ pc \in Resting
    /\ today < MaxDay
    /\ today' = today + 1
    /\ UNCHANGED <<required, file, pc, all_flagged, state, new_counts,
                   confirmed, result, startFile, killed, streak>>
    /\ UNCHANGED others

Next ==
    \/ ReportWeekend
    \/ \E db_exists \in BOOLEAN, detected \in Detections :
           ReportBusinessDay(db_exists, detected)
    \/ Tick

Spec == Init /\ [][Next]_vars

\* the same program with the module global set to 1
InitOne ==
    /\ OthersIdle
    /\ today = StartDay
    /\ required = 1
    /\ file = MissingFile
    /\ pc = "idle"
    /\ all_flagged = <<>>
    /\ state = EmptyState
    /\ new_counts = NoEntries
    /\ confirmed = <<>>
    /\ result = "none"
    /\ startFile = MissingFile
    /\ killed = NoKill
    /\ streak = [s \in Symbols |-> NoStreak]

SpecOne == InitOne /\ [][Next]_vars

\* ------------------------------------------- invocations that can be killed
\* positions after detection and before save_tracking_state is entered
BeforePersist == {"load", "update", "save"}
Running == {"load", "update", "save", "dump", "filter", "report"}

\* generate_stale_price_report on a weekend (nothing to interrupt)
StepWeekend ==
    /\ pc \in Resting
    /\ IsWeekend(today)
    /\ all_flagged' = <<>>
    /\ state' = EmptyState
    /\ new_counts' = NoEntries
    /\ confirmed' = <<>>
    /\ result' = "None"
    /\ startFile' = file
    /\ killed' = IF pc = "killed" THEN killed ELSE NoKill
    /\ pc' = "done"
    /\ UNCHANGED <<today, required, file, streak>>
    /\ UNCHANGED others

\* generate_stale_price_report on a business day, up to the return of
\* detect_stale_prices
StepDetect(db_exists, detected) ==
    /\ pc \in Resting
    /\ ~IsWeekend(today)
    /\ startFile' = file
    /\ killed' = IF pc = "killed" THEN killed ELSE NoKill
    /\ state' = EmptyState
    /\ new_counts' = NoEntries
    /\ confirmed' = <<>>
    /\ result' = "none"
    /\ IF ~db_exists
       THEN \* get_db_connection raises FileNotFoundError
            /\ all_flagged' = <<>>
            /\ pc' = "raised"
       ELSE /\ Bounded(detected)
            /\ all_flagged' = detected
            /\ pc' = "load"
    /\ UNCHANGED <<today, required, file, streak>>
    /\ UNCHANGED others

\* state = load_tracking_state()
LoadState ==
    /\ pc = "load"
    /\ IF Readable(file)
       THEN /\ state' = load_tracking_state(file)
            /\ pc' = "update"
            /\ UNCHANGED all_flagged
       ELSE \* json.load raises JSONDecodeError
            /\ state' = EmptyState
            /\ all_flagged' = <<>>
            /\ pc' = "raised"
    /\ UNCHANGED <<today, required, file, new_counts, confirmed, result,
                   startFile, killed, streak>>
    /\ UNCHANGED others

\* variant: the new counts are written to the file as soon as they are known
UpdateCountsWritesEarly ==
    /\ pc = "update"
    /\ new_counts' = NewCounts(all_flagged, state.failure_counts, Isoformat(today))
    /\ state' = [last_run |-> Isoformat(today), failure_counts |-> new_counts']
    /\ file' = DocOf(state')
    /\ pc' = "save"
    /\ UNCHANGED <<today, required, all_flagged, confirmed, result,
                   startFile, killed, streak>>
    /\ UNCHANGED others

\* new_counts is computed and stored into state, in memory
UpdateCounts ==
    /\ pc = "update"
    /\ new_counts' = NewCounts(all_flagged, state.failure_counts, Isoformat(today))
    /\ state' = [last_run |-> Isoformat(today), failure_counts |-> new_counts']
    /\ pc' = "save"
    /\ UNCHANGED <<today, required, file, all_flagged, confirmed, result,
                   startFile, killed, streak>>
    /\ UNCHANGED others

\* save_tracking_state: open(STATE_FILE, 'w') truncates the file
SaveOpen ==
    /\ pc = "save"
    /\ file' = FileOf("empty")
    /\ pc' = "dump"
    /\ UNCHANGED <<today, required, all_flagged, state, new_counts, confirmed,
                   result, startFile, killed, streak>>
    /\ UNCHANGED others

\* save_tracking_state: json.dump has written a first part of the document
SaveFlush ==
    /\ pc = "dump"
    /\ file.kind = "empty"
    /\ file' = FileOf("partial")
    /\ UNCHANGED <<today, required, pc, all_flagged, state, new_counts,
                   confirmed, result, startFile, killed, streak>>
    /\ UNCHANGED others

\* save_tracking_state: the with block ends, the whole document is on disk
SaveClose ==
    /\ pc = "dump"
    /\ file' = DocOf(state)
    /\ streak' = StreakAfter(all_flagged)
    /\ pc' = "filter"
    /\ UNCHANGED <<today, required, all_flagged, state, new_counts, confirmed,
                   result, startFile, killed>>
    /\ UNCHANGED others

\* the filter, the annotation and the return of apply_failure_tracking
Filter ==
    /\ pc = "filter"
    /\ confirmed' = ConfirmedOf(all_flagged, new_counts, required)
    /\ all_flagged' = AnnotatedInPlace(all_flagged, new_counts, required)
    /\ pc' = "report"
    /\ UNCHANGED <<today, required, file, state, new_counts, result,
                   startFile, killed, streak>>
    /\ UNCHANGED others

\* the rest of generate_stale_price_report: the report is built and returned
BuildReport ==
    /\ pc = "report"
    /\ result' = "report"
    /\ pc' = "done"
    /\ UNCHANGED <<today, required, file, all_flagged, state, new_counts,
                   confirmed, startFile, killed, streak>>
    /\ UNCHANGED others

\* the process is killed in the middle of an invocation: its memory is gone
Kill ==
    /\ pc \in Running
    /\ killed' = [at |-> pc, old |-> startFile]
    /\ pc' = "killed"
    /\ all_flagged' = <<>>
    /\ state' = EmptyState
    /\ new_counts' = NoEntries
    /\ confirmed' = <<>>
    /\ result' = "none"
    /\ UNCHANGED <<today, required, file, startFile, streak>>
    /\ UNCHANGED others

NextSteps ==
    \/ StepWeekend
    \/ \E db_exists \in BOOLEAN, detected \in Detections :
           StepDetect(db_exists, detected)
    \/ LoadState
    \/ UpdateCounts
    \/ SaveOpen
    \/ SaveFlush
    \/ SaveClose
    \/ Filter
    \/ BuildReport
    \/ Kill
    \/ Tick

SpecSteps == Init /\ [][NextSteps]_vars

\* ------------------------------------------------ two invocations at once
\* the state file after one whole confirmation run on a day
AfterRun(f, signals, day) ==
    DocOf([last_run |-> Isoformat(day),
           failure_counts |-> NewCounts(signals,
                                        load_tracking_state(f).failure_counts,
                                        Isoformat(day))])

\* the state files that at most k whole runs on the first day leave behind
RECURSIVE StoresAfter(_)
StoresAfter(k) ==
    IF k = 0 THEN {MissingFile}
    ELSE StoresAfter(k - 1)
         \cup {AfterRun(f, d, StartDay) : f \in StoresAfter(k - 1), d \in Detections}

\* the runs behind the stores an invocation starts from
SeedRuns == 2
ReachableStores == StoresAfter(SeedRuns)

Procs == {1, 2}

IdleProc == [pc |-> "idle", sigs |-> <<>>, state |-> EmptyState,
             seen |-> {}, clobbered |-> FALSE]

InitRace ==
    /\ today = StartDay
    /\ required = CONSECUTIVE_FAILURES_REQUIRED
    /\ file \in ReachableStores
    /\ startFile = file
    /\ pc = "idle"
    /\ all_flagged = <<>>
    /\ state = EmptyState
    /\ new_counts = NoEntries
    /\ confirmed = <<>>
    /\ result = "none"
    /\ killed = NoKill
    /\ streak = [s \in Symbols |-> NoStreak]
    /\ procs = [p \in Procs |-> IdleProc]
    /\ det = <<>>
    /\ series = <<>>
    /\ val = <<>>
    /\ batch = <<>>
    /\ log = <<>>
    /\ sig = <<>>

RaceFrame == UNCHANGED <<today, required, pc, all_flagged, state, new_counts,
                         confirmed, result, startFile, killed, streak, det,
                         series, val, batch, log, sig>>

\* process p: detect_stale_prices returned
RaceDetect(p, detected) ==
    /\ procs[p].pc = "idle"
    /\ procs' = [procs EXCEPT ![p].pc = "load", ![p].sigs = detected]
    /\ UNCHANGED file
    /\ RaceFrame

\* process p: state = load_tracking_state(); seen records whose save had
\* begun by then
RaceLoad(p) ==
    /\ procs[p].pc = "load"
    /\ procs' = [procs EXCEPT
                   ![p].pc = IF Readable(file) THEN "update" ELSE "raised",
                   ![p].state = load_tracking_state(file),
                   ![p].seen = {q \in Procs \ {p} : procs[q].pc \in {"dump", "done"}}]
    /\ UNCHANGED file
    /\ RaceFrame

\* process p: new_counts is computed and stored into its state
RaceUpdate(p) ==
    /\ procs[p].pc = "update"
    /\ procs' = [procs EXCEPT
                   ![p].pc = "save",
                   ![p].state = [last_run |-> Isoformat(today),
                                 failure_counts |->
                                     NewCounts(procs[p].sigs,
                                               procs[p].state.failure_counts,
                                               Isoformat(today))]]
    /\ UNCHANGED file
    /\ RaceFrame

\* process p: open(STATE_FILE, 'w') truncates the file
RaceOpen(p) ==
    /\ procs[p].pc = "save"
    /\ procs' = [procs EXCEPT ![p].pc = "dump"]
    /\ file' = FileOf("empty")
    /\ RaceFrame

\* process p: its document is written from offset 0 and the file is closed;
\* over a longer document that the other process wrote meanwhile, the tail of
\* that document stays behind it
RaceClose(p) ==
    /\ procs[p].pc = "dump"
    /\ \/ file' = DocOf(procs[p].state)
       \/ procs[p].clobbered /\ file' = FileOf("partial")
    /\ procs' = [q \in Procs |->
                   IF q = p THEN [procs[p] EXCEPT !.pc = "done"]
                   ELSE IF procs[q].pc = "dump"
                        THEN [procs[q] EXCEPT !.clobbered = TRUE]
                        ELSE procs[q]]
    /\ RaceFrame

NextRace ==
    \/ \E p \in Procs, detected \in Detections : RaceDetect(p, detected)
    \/ \E p \in Procs : RaceLoad(p)
    \/ \E p \in Procs : RaceUpdate(p)
    \/ \E p \in Procs : RaceOpen(p)
    \/ \E p \in Procs : RaceClose(p)

SpecRace == InitRace /\ [][NextRace]_vars

\* ------------------------------------- one invocation on a given database
\* five identical closes, no volume, on the latest trading dates
Frozen == [i \in 1..5 |-> Obs(5 + i, 40000, 0)]
\* five moving closes below $0.01 on the latest trading dates
ExtremePenny == [i \in 1..5 |-> Obs(5 + i, 100 + 10 * i, 5000)]

DetectProfiles == {NoRows, Healthy, Penny, Stopped, Short, Frozen, ExtremePenny}
DetectDatabases ==
    {NoDb} \cup {Db(a, b) : a \in DetectProfiles, b \in DetectProfiles}

\* what detect_stale_prices returns on a business day, per database and
\* watchlist order
DetectTable ==
    [db \in DetectDatabases, watchlist \in WatchlistOrders |->
        IF db.exists THEN DetectStalePrices(db, watchlist) ELSE <<>>]

\* the state files an invocation may find: left by whole runs, or by a run
\* killed inside save_tracking_state
DetectStores == StoresAfter(1) \cup {FileOf("empty"), FileOf("partial")}

InitDetect ==
    /\ today \in StartDay..MaxDay
    /\ required = CONSECUTIVE_FAILURES_REQUIRED
    /\ file \in DetectStores
    /\ startFile = file
    /\ pc = "idle"
    /\ all_flagged = <<>>
    /\ state = EmptyState
    /\ new_counts = NoEntries
    /\ confirmed = <<>>
    /\ result = "none"
    /\ killed = NoKill
    /\ streak = [s \in Symbols |-> NoStreak]
    /\ procs = <<>>
    /\ det \in [db : DetectDatabases, watchlist : WatchlistOrders]
    /\ series = <<>>
    /\ val = <<>>
    /\ batch = <<>>
    /\ log = <<>>
    /\ sig = <<>>

\* variant: an empty detection is skipped like a weekend
DetectInvokeSkipsEmpty ==
    /\ pc = "idle"
    /\ state' = EmptyState
    /\ new_counts' = NoEntries
    /\ confirmed' = <<>>
    /\ IF IsWeekend(today)
       THEN /\ all_flagged' = <<>>
            /\ result' = "None"
            /\ pc' = "done"
       ELSE IF ~det.db.exists
       THEN /\ all_flagged' = <<>>
            /\ result' = "none"
            /\ pc' = "raised"
       ELSE IF DetectTable[det.db, det.watchlist] = <<>>
       THEN /\ all_flagged' = <<>>
            /\ result' = "None"
            /\ pc' = "done"
       ELSE /\ all_flagged' = DetectTable[det.db, det.watchlist]
            /\ result' = "none"
            /\ pc' = "load"
    /\ UNCHANGED <<today, required, file, startFile, killed, streak, others>>

\* generate_stale_price_report up to the return of detect_stale_prices (on a
\* weekend: up to its own return)
DetectInvoke ==
    /\ pc = "idle"
    /\ state' = EmptyState
    /\ new_counts' = NoEntries
    /\ confirmed' = <<>>
    /\ IF IsWeekend(today)
       THEN /\ all_flagged' = <<>>
            /\ result' = "None"
            /\ pc' = "done"
       ELSE IF ~det.db.exists
       THEN \* get_db_connection raises FileNotFoundError
            /\ all_flagged' = <<>>
            /\ result' = "none"
            /\ pc' = "raised"
       ELSE /\ all_flagged' = DetectTable[det.db, det.watchlist]
            /\ result' = "none"
            /\ pc' = "load"
    /\ UNCHANGED <<today, required, file, startFile, killed, streak, others>>

\* variant: a failed write is swallowed and the run goes on
SaveFailsSwallowed ==
    /\ pc \in {"save", "dump"}
    /\ result' = "OSError"
    /\ pc' = "filter"
    /\ UNCHANGED <<today, required, file, all_flagged, state, new_counts,
                   confirmed, startFile, killed, streak>>
    /\ UNCHANGED others

\* save_tracking_state raises OSError: open() fails (pc = "save") or the
\* write fails after the file was truncated (pc = "dump"); nothing catches it
SaveFails ==
    /\ pc \in {"save", "dump"}
    /\ result' = "OSError"
    /\ pc' = "raised"
    /\ all_flagged' = <<>>
    /\ state' = EmptyState
    /\ new_counts' = NoEntries
    /\ UNCHANGED <<today, required, file, confirmed, startFile, killed, streak>>
    /\ UNCHANGED others

NextDetect ==
    \/ DetectInvoke
    \/ LoadState
    \/ UpdateCounts
    \/ SaveOpen
    \/ SaveFlush
    \/ SaveClose
    \/ SaveFails
    \/ Filter
    \/ BuildReport

SpecDetect == InitDetect /\ [][NextDetect]_vars

\* ------------------------------------------- Check 1 on one close series
\* closes around $2.00, 0.00005 apart: differences below, at and above the
\* tolerance
CloseValues == {40000, 40001, 40002, 40004}
\* the price loop skips series of fewer than 5 closes
MinLen == 5
CloseSeries == UNION {[1..n -> CloseValues] : n \in MinLen..MaxLen}

InitSeries ==
    /\ today = StartDay
    /\ required = CONSECUTIVE_FAILURES_REQUIRED
    /\ file = MissingFile
    /\ startFile = MissingFile
    /\ pc = "idle"
    /\ all_flagged = <<>>
    /\ state = EmptyState
    /\ new_counts = NoEntries
    /\ confirmed = <<>>
    /\ result = "none"
    /\ killed = NoKill
    /\ streak = [s \in Symbols |-> NoStreak]
    /\ procs = <<>>
    /\ det = <<>>
    /\ val = <<>>
    /\ batch = <<>>
    /\ log = <<>>
    /\ sig = <<>>
    /\ \E closes \in CloseSeries :
           series = [closes |-> closes, scanned |-> FALSE,
                     max_consecutive |-> 1, is_stale |-> FALSE]

\* Check 1 of the price loop on series.closes
ScanCloses ==
    /\ ~series.scanned
    /\ series' = [series EXCEPT
                     !.scanned = TRUE,
                     !.max_consecutive = MaxConsecutive(series.closes),
                     !.is_stale = MaxConsecutive(series.closes) >= STALE_DAYS_THRESHOLD]
    /\ UNCHANGED <<today, required, file, pc, all_flagged, state, new_counts,
                   confirmed, result, startFile, killed, streak, procs, det, val,
                   batch, log, sig>>

NextSeries == ScanCloses

SpecSeries == InitSeries /\ [][NextSeries]_vars

\* ------------------------------------------------- security_validator.py
\* the validator's thresholds, in units of 0.00005 dollar
VALIDATOR_PENNY_STOCK_THRESHOLD == 20000
VALIDATOR_EXTREME_PENNY_THRESHOLD == 200
\* latest_price < 0.001
DelistedPrice == 20
\* abs(rows[i][0] - rows[i-1][0]) < 0.0001
SamePriceTolerance == 2
\* avg_volume < 10000
AtRiskVolume == 10000
\* LIMIT 10
RowLimit == 10

PrimaryKeys == {"symbol", "status", "reason", "last_price", "volume",
                "validation_date", "data_source"}
HeuristicKeys == {"status", "reason", "data_source"}

\* the loop over rows[1..]: consecutive same-price days
RECURSIVE RowsLoop(_, _, _, _)
RowsLoop(rows, i, consecutive, max_consecutive) ==
    IF i > Len(rows) THEN max_consecutive
    ELSE IF Abs(rows[i].close - rows[i-1].close) < SamePriceTolerance
         THEN RowsLoop(rows, i + 1, consecutive + 1,
                  IF consecutive + 1 > max_consecutive
                  THEN consecutive + 1 ELSE max_consecutive)
         ELSE RowsLoop(rows, i + 1, 1, max_consecutive)

\* variant: the price rule for $0.01 is tried before the zero-volume rule
ClassificationExtremeFirst(rows) ==
    LET latest_price == rows[1].close
        avg_volume == Mean(MapField(rows, "volume"))
        zero_vol_days == ZeroVolDays(MapField(rows, "volume"))
        consecutive == RowsLoop(rows, 2, 1, 1)
    IN  IF latest_price < DelistedPrice
        THEN [status |-> "DELISTED", data_source |-> "Price Analysis"]
        ELSE IF latest_price < VALIDATOR_EXTREME_PENNY_THRESHOLD
        THEN [status |-> "DELISTED", data_source |-> "Price Analysis"]
        ELSE IF zero_vol_days >= 5
        THEN [status |-> "SUSPENDED", data_source |-> "Volume Analysis"]
        ELSE IF latest_price < VALIDATOR_PENNY_STOCK_THRESHOLD
                /\ AvgBelow(avg_volume, AtRiskVolume)
        THEN [status |-> "AT_RISK", data_source |-> "Risk Analysis"]
        ELSE IF latest_price < VALIDATOR_PENNY_STOCK_THRESHOLD
        THEN [status |-> "PENNY_STOCK", data_source |-> "Price Analysis"]
        ELSE IF consecutive >= 10
        THEN [status |-> "SUSPICIOUS", data_source |-> "Pattern Analysis"]
        ELSE IF consecutive >= 3
        THEN [status |-> "MONITOR", data_source |-> "Heuristic"]
        ELSE [status |-> "ACTIVE", data_source |-> "Database"]

\* "Classification logic" on the rows of one symbol, latest first
Classification(rows) ==
    LET latest_price == rows[1].close
        avg_volume == Mean(MapField(rows, "volume"))
        zero_vol_days == ZeroVolDays(MapField(rows, "volume"))
        consecutive == RowsLoop(rows, 2, 1, 1)
    IN  IF latest_price < DelistedPrice
        THEN [status |-> "DELISTED", data_source |-> "Price Analysis"]
        ELSE IF zero_vol_days >= 5
        THEN [status |-> "SUSPENDED", data_source |-> "Volume Analysis"]
        ELSE IF latest_price < VALIDATOR_EXTREME_PENNY_THRESHOLD
        THEN [status |-> "DELISTED", data_source |-> "Price Analysis"]
        ELSE IF latest_price < VALIDATOR_PENNY_STOCK_THRESHOLD
                /\ AvgBelow(avg_volume, AtRiskVolume)
        THEN [status |-> "AT_RISK", data_source |-> "Risk Analysis"]
        ELSE IF latest_price < VALIDATOR_PENNY_STOCK_THRESHOLD
        THEN [status |-> "PENNY_STOCK", data_source |-> "Price Analysis"]
        ELSE IF consecutive >= 10
        THEN [status |-> "SUSPICIOUS", data_source |-> "Pattern Analysis"]
        ELSE IF consecutive >= 3
        THEN [status |-> "MONITOR", data_source |-> "Heuristic"]
        ELSE [status |-> "ACTIVE", data_source |-> "Database"]

heuristic_validation(symbol, data) ==
    LET price == data.price
        avg_volume == data.avg_volume
        consecutive_days == data.consecutive_days
        status ==
            IF price < DelistedPrice THEN "DELISTED"
            ELSE IF price < VALIDATOR_PENNY_STOCK_THRESHOLD
                    /\ AvgBelow(avg_volume, AtRiskVolume) THEN "AT_RISK"
            ELSE IF price < VALIDATOR_PENNY_STOCK_THRESHOLD THEN "PENNY_STOCK"
            ELSE IF consecutive_days >= 10 THEN "SUSPICIOUS"
            ELSE "MONITOR"
    IN  [keys |-> HeuristicKeys, status |-> status, data_source |-> "Heuristic"]

\* db: "ok" (DB_PATH exists, the query returns rows), "missing" (DB_PATH does
\* not exist), "fault" (the connection or the query raises)
validate_security_status(symbol, db, rows, stale_data_entry) ==
    IF db = "fault"
    THEN [keys |-> PrimaryKeys, symbol |-> symbol, status |-> "ERROR",
          data_source |-> "ERROR"]
    ELSE IF db = "ok"
    THEN IF rows = <<>>
         THEN [keys |-> PrimaryKeys, symbol |-> symbol, status |-> "DELISTED",
               data_source |-> "Data Absence"]
         ELSE [keys |-> PrimaryKeys, symbol |-> symbol,
               status |-> Classification(rows).status,
               data_source |-> Classification(rows).data_source]
    ELSE IF stale_data_entry # None
    THEN heuristic_validation(symbol, stale_data_entry)
    ELSE [keys |-> PrimaryKeys, symbol |-> symbol, status |-> "UNKNOWN",
          data_source |-> "N/A"]

\* ---- inputs of the validator
LatestPrices == {10, 19, 20, 100, 199, 200, 10000, 19999, 20000, 30000}
RowVolumes == {500, 5000, 10000}
RowCounts == {1, 3, 5, RowLimit}
RunStarts == {1, 3}
RunLengths == {1, 2, 3, 5, 9, 10}
ZeroDays == {0, 1, 4, 5, 10}
\* n rows, latest first, latest close p; the only same-price run is rows
\* s..s+r-1, other adjacent closes are $0.01 apart; the first z rows have no
\* volume, the others volume v
RowsOf(n, p, s, r, z, v) ==
    [i \in 1..n |->
        [close |-> p + 200 * Cardinality({k \in 1..(i - 1) :
                                             ~(s <= k /\ k < s + r - 1)}),
         volume |-> IF i <= z THEN 0 ELSE v]]
RowSets ==
    {<<>>} \cup
    {RowsOf(n, p, sr[1], sr[2], z, v) :
        n \in RowCounts, p \in LatestPrices,
        sr \in {x \in RunStarts \X RunLengths : x[1] + x[2] - 1 <= RowLimit},
        z \in ZeroDays, v \in RowVolumes}
\* the securities a stale price report can hold: signals of detection
ReportEntries ==
    UNION {{DetectTable[db, w][i] : i \in 1..Len(DetectTable[db, w])} :
              db \in DetectDatabases, w \in WatchlistOrders}

InitValidate ==
    /\ today = StartDay
    /\ required = CONSECUTIVE_FAILURES_REQUIRED
    /\ file = MissingFile
    /\ startFile = MissingFile
    /\ pc = "idle"
    /\ all_flagged = <<>>
    /\ state = EmptyState
    /\ new_counts = NoEntries
    /\ confirmed = <<>>
    /\ result = "none"
    /\ killed = NoKill
    /\ streak = [s \in Symbols |-> NoStreak]
    /\ procs = <<>>
    /\ det = <<>>
    /\ series = <<>>
    /\ batch = <<>>
    /\ log = <<>>
    /\ sig = <<>>
    /\ \/ \E rows \in RowSets, sym \in Symbols :
              val = [pc |-> "idle", symbol |-> sym, db |-> "ok", rows |-> rows,
                     entry |-> None, result |-> None]
       \/ \E e \in ReportEntries, db \in {"ok", "missing", "fault"} :
              val = [pc |-> "idle", symbol |-> e.symbol, db |-> db,
                     rows |-> <<>>, entry |-> e, result |-> None]
       \/ \E sym \in Symbols, db \in {"missing", "fault"} :
              val = [pc |-> "idle", symbol |-> sym, db |-> db, rows |-> <<>>,
                     entry |-> None, result |-> None]

\* one call of validate_security_status
Validate ==
    /\ val.pc = "idle"
    /\ val' = [val EXCEPT
                  !.pc = "done",
                  !.result = validate_security_status(val.symbol, val.db,
                                                      val.rows, val.entry)]
    /\ UNCHANGED <<today, required, file, pc, all_flagged, state, new_counts,
                   confirmed, result, startFile, killed, streak, procs, det,
                   series, batch, log, sig>>

NextValidate == Validate

SpecValidate == InitValidate /\ [][NextValidate]_vars

\* ------------------------------------------------------- the removal log
\* the symbols already in the log
LoggedSymbols(removals) == {removals[i].symbol : i \in 1..Len(removals)}

\* variant: a symbol already logged is appended again
log_removalAppendsAgain(removals, symbol, reason, status) ==
    Append(removals, [symbol |-> symbol, reason |-> reason, status |-> status])

\* log_removal on the removals the log file holds: what the file holds after
\* the call (the entry's date, last_price and watchlist are written with it
\* and never read again)
log_removal(removals, symbol, reason, status) ==
    IF symbol \in LoggedSymbols(removals) THEN removals
    ELSE Append(removals, [symbol |-> symbol, reason |-> reason, status |-> status])

NoCall == [symbol |-> "", reason |-> "", status |-> ""]
LogSymbols == Symbols \cup {"CCC"}
LogReasons == {"Confirmed delisted", "Manual removal"}
LogStatuses == {"DELISTED", "SUSPENDED"}

InitLog ==
    /\ today = StartDay
    /\ required = CONSECUTIVE_FAILURES_REQUIRED
    /\ file = MissingFile
    /\ startFile = MissingFile
    /\ pc = "idle"
    /\ all_flagged = <<>>
    /\ state = EmptyState
    /\ new_counts = NoEntries
    /\ confirmed = <<>>
    /\ result = "none"
    /\ killed = NoKill
    /\ streak = [s \in Symbols |-> NoStreak]
    /\ procs = <<>>
    /\ det = <<>>
    /\ series = <<>>
    /\ val = <<>>
    /\ batch = <<>>
    /\ log = [removals |-> <<>>, call |-> NoCall, calls |-> 0]
    /\ sig = <<>>

\* one call log_removal(symbol, reason, status)
LogRemoval(symbol, reason, status) ==
    /\ log.calls < MaxCalls
    /\ log' = [removals |-> log_removal(log.removals, symbol, reason, status),
               call |-> [symbol |-> symbol, reason |-> reason, status |-> status],
               calls |-> log.calls + 1]
    /\ UNCHANGED <<today, required, file, pc, all_flagged, state, new_counts,
                   confirmed, result, startFile, killed, streak, procs, det,
                   series, val, batch, sig>>

NextLog ==
    \E symbol \in LogSymbols, reason \in LogReasons, status \in LogStatuses :
        LogRemoval(symbol, reason, status)

SpecLog == InitLog /\ [][NextLog]_vars

\* ------------------------------------ batch validation and removal logging
\* how one call of validate_security_status finds the database
BatchRows == {<<>>, RowsOf(5, 30000, 1, 1, 0, 5000), RowsOf(5, 10, 1, 1, 0, 5000)}
BatchItems ==
    {[security |-> e, db |-> "ok", rows |-> rows] :
        e \in ReportEntries, rows \in BatchRows} \cup
    {[security |-> e, db |-> db, rows |-> <<>>] :
        e \in ReportEntries, db \in {"missing", "fault"}}
BatchInputs == UNION {[1..n -> BatchItems] : n \in 0..MaxBatch}

InitBatch ==
    /\ today = StartDay
    /\ required = CONSECUTIVE_FAILURES_REQUIRED
    /\ file = MissingFile
    /\ startFile = MissingFile
    /\ pc = "idle"
    /\ all_flagged = <<>>
    /\ state = EmptyState
    /\ new_counts = NoEntries
    /\ confirmed = <<>>
    /\ result = "none"
    /\ killed = NoKill
    /\ streak = [s \in Symbols |-> NoStreak]
    /\ procs = <<>>
    /\ det = <<>>
    /\ series = <<>>
    /\ val = <<>>
    /\ \E items \in BatchInputs :
           batch = [pc |-> "loop", items |-> items, i |-> 1,
                    validation_results |-> <<>>, j |-> 1]
    /\ log = [removals |-> <<>>, call |-> NoCall, calls |-> 0]
    /\ sig = <<>>

BatchFrame == UNCHANGED <<today, required, file, pc, all_flagged, state,
                          new_counts, confirmed, result, startFile, killed,
                          streak, procs, det, series, val, sig>>

\* variant: an exception inside the call ends the batch
BatchValidateNextEscapes ==
    /\ batch.pc = "loop"
    /\ batch.i <= Len(batch.items)
    /\ LET item == batch.items[batch.i]
       IN  IF item.db = "fault"
           THEN batch' = [batch EXCEPT !.pc = "raised"]
           ELSE batch' = [batch EXCEPT
                   !.i = batch.i + 1,
                   !.validation_results =
                       Append(batch.validation_results,
                              validate_security_status(item.security.symbol,
                                  item.db, item.rows, item.security))]
    /\ UNCHANGED log
    /\ BatchFrame

\* batch_validate_securities: one pass of the loop over stale_securities
BatchValidateNext ==
    /\ batch.pc = "loop"
    /\ batch.i <= Len(batch.items)
    /\ LET item == batch.items[batch.i]
       IN  batch' = [batch EXCEPT
               !.i = batch.i + 1,
               !.validation_results =
                   Append(batch.validation_results,
                          validate_security_status(item.security.symbol,
                              item.db, item.rows, item.security))]
    /\ UNCHANGED log
    /\ BatchFrame

\* batch_validate_securities: nothing to validate, or the loop is over and
\* the validation report is saved
BatchFinish ==
    /\ batch.pc = "loop"
    /\ batch.i > Len(batch.items)
    /\ batch' = [batch EXCEPT
                    !.pc = IF batch.items = <<>> THEN "done" ELSE "saved"]
    /\ UNCHANGED log
    /\ BatchFrame

\* log_removals_from_validation: one result of the saved report
LogRemovalsNext ==
    /\ batch.pc = "saved"
    /\ batch.j <= Len(batch.validation_results)
    /\ LET sec == batch.validation_results[batch.j]
       IN  IF sec.status # "DELISTED"
           THEN /\ batch' = [batch EXCEPT !.j = batch.j + 1]
                /\ UNCHANGED log
           ELSE IF "symbol" \notin sec.keys
           THEN \* sec['symbol'] raises KeyError
                /\ batch' = [batch EXCEPT !.pc = "raised"]
                /\ UNCHANGED log
           ELSE /\ batch' = [batch EXCEPT !.j = batch.j + 1]
                /\ log' = [removals |-> log_removal(log.removals, sec.symbol,
                                           sec.data_source, "DELISTED"),
                           call |-> [symbol |-> sec.symbol,
                                     reason |-> sec.data_source,
                                     status |-> "DELISTED"],
                           calls |-> log.calls + 1]
    /\ BatchFrame

\* log_removals_from_validation returns
LogRemovalsDone ==
    /\ batch.pc = "saved"
    /\ batch.j > Len(batch.validation_results)
    /\ batch' = [batch EXCEPT !.pc = "done"]
    /\ UNCHANGED log
    /\ BatchFrame

NextBatch ==
    \/ BatchValidateNext
    \/ BatchFinish
    \/ LogRemovalsNext
    \/ LogRemovalsDone

SpecBatch == InitBatch /\ [][NextBatch]_vars

\* --------------------------------------- the price loop on one symbol
\* closes below $0.01, below and at $1.00, and above
SignalCloses == {100, 19000, 20000, 40000}
SignalVolumes == {500, 1000, 5000}
SignalZeroDays == {0, 1, 2, 5}
\* the values STALE_DAYS_THRESHOLD is given: the module's, and 3
StaleThresholds == {STALE_DAYS_THRESHOLD, 3}
\* MinLen rows on the latest trading dates; the first z have no volume
SignalData ==
    {[i \in 1..MinLen |-> Obs(5 + i, closes[i], IF i <= z THEN 0 ELSE v)] :
        closes \in [1..MinLen -> SignalCloses], z \in SignalZeroDays,
        v \in SignalVolumes}

InitSignal ==
    /\ today = StartDay
    /\ required = CONSECUTIVE_FAILURES_REQUIRED
    /\ file = MissingFile
    /\ startFile = MissingFile
    /\ pc = "idle"
    /\ all_flagged = <<>>
    /\ state = EmptyState
    /\ new_counts = NoEntries
    /\ confirmed = <<>>
    /\ result = "none"
    /\ killed = NoKill
    /\ streak = [s \in Symbols |-> NoStreak]
    /\ procs = <<>>
    /\ det = <<>>
    /\ series = <<>>
    /\ val = <<>>
    /\ batch = <<>>
    /\ log = <<>>
    /\ \E data \in SignalData, t \in StaleThresholds :
           sig = [data |-> data, stale_days_threshold |-> t, done |-> FALSE,
                  signals |-> <<>>]

\* one pass of the loop over symbol_data.items()
FlagSymbol ==
    /\ ~sig.done
    /\ sig' = [sig EXCEPT
                  !.done = TRUE,
                  !.signals = PriceSignalsAt("AAA", sig.data,
                                             sig.stale_days_threshold)]
    /\ UNCHANGED <<today, required, file, pc, all_flagged, state, new_counts,
                   confirmed, result, startFile, killed, streak, procs, det,
                   series, val, batch, log>>

NextSignal == FlagSymbol

SpecSignal == InitSignal /\ [][NextSignal]_vars

\* ------------------------------------------------------------ properties
Tracked(f) == DOMAIN f.failure_counts
Flagged == SymbolsOf(all_flagged)
Confirmed == SymbolsOf(confirmed)
\* a signal as detection made it, without the fields the annotation adds
Unannotated(sec) ==
    [f \in (DOMAIN sec) \ {"consecutive_failures", "first_flagged"} |-> sec[f]]
\* the last invocation was a confirmation run that returned
RunReturned == pc = "done" /\ result = "report"

\* C1: every signal in the confirmed output of a run belongs to a symbol
\* whose count in the state just written is at least the required number of
\* failures.
C1_ConfirmedOnlyAtThreshold ==
    RunReturned =>
        /\ file.kind = "doc"
        /\ \A i \in 1..Len(confirmed) :
               /\ confirmed[i].symbol \in Tracked(file)
               /\ file.failure_counts[confirmed[i].symbol].count >= required

C1_Witness ==
    /\ RunReturned
    /\ confirmed # <<>>
    /\ \E s \in Flagged : CountIn(file, s) < required

\* C2: starting from the empty store, the persisted count of a symbol is the
\* number of runs in a row in which it was flagged, a tracked symbol that a
\* run does not flag has count 0 after it, and a confirmed symbol has been
\* flagged in at least the required number of runs in a row.
C2_CountIsRunStreak ==
    /\ \A s \in Symbols : CountIn(file, s) = streak[s].runs
    /\ RunReturned =>
           /\ \A s \in Tracked(file) \ Flagged : file.failure_counts[s].count = 0
           /\ \A s \in Confirmed : streak[s].runs >= required

C2_Witness ==
    /\ RunReturned
    /\ \E s \in Tracked(file) :
           /\ CountIn(startFile, s) = required - 1
           /\ file.failure_counts[s].count = 0
           /\ s \notin Confirmed

\* C3: a symbol is confirmed only after it was flagged on the required
\* number of distinct days in a row.
C3_ConfirmedAfterDistinctDays ==
    RunReturned => \A s \in Confirmed : streak[s].days >= required

\* C4: a second run on the same day with the same signals, starting from the
\* state the first run persisted, emits the same confirmed set as the first.
C4_SameDayRerunSameConfirmed ==
    [][(/\ RunReturned
        /\ RunReturned'
        /\ startFile' = file
        /\ state'.last_run = state.last_run
        /\ [i \in 1..Len(all_flagged') |-> Unannotated(all_flagged'[i])]
             = [i \in 1..Len(all_flagged) |-> Unannotated(all_flagged[i])])
       => SymbolsOf(confirmed') = SymbolsOf(confirmed)]_vars

\* C5: with the required number of failures set to 1 the confirmed output of
\* a run is the whole detection list, in the same order.
C5_RequiredOneIsDetection ==
    (RunReturned /\ required = 1) =>
        /\ Len(confirmed) = Len(all_flagged)
        /\ \A i \in 1..Len(confirmed) :
               Unannotated(confirmed[i]) = Unannotated(all_flagged[i])

C5_Witness ==
    /\ RunReturned
    /\ required = 1
    /\ Len(confirmed) = 2
    /\ confirmed[1].symbol # confirmed[2].symbol

C7_KeysOnlyGrow ==
    [][Tracked(file) \subseteq Tracked(file')]_vars

C7_Witness ==
    /\ RunReturned
    /\ \E s \in Tracked(file) \ Flagged : s \in Tracked(startFile)

\* C8: no run changes the first_flagged date of a symbol already in the
\* store, and a symbol entering the store gets first_flagged = today.
C8_FirstFlaggedFixed ==
    [][\A s \in Tracked(file') :
          IF s \in Tracked(file)
          THEN file'.failure_counts[s].first_flagged
                   = file.failure_counts[s].first_flagged
          ELSE file'.failure_counts[s].first_flagged = Isoformat(today)]_vars

C8_Witness ==
    /\ RunReturned
    /\ \E s \in Flagged :
           /\ s \in Tracked(startFile)
           /\ startFile.failure_counts[s].count = 0
           /\ file.failure_counts[s].count = 1
           /\ file.failure_counts[s].first_flagged # file.last_run

\* C9: a run killed after detection and before the persist step leaves the
\* stored state as it was before that run, and the next invocation that
\* completes gives every symbol it flags the old count plus one.
C9_KillBeforePersistNoDoubleCount ==
    killed.at \in BeforePersist =>
        /\ pc = "killed" => file = killed.old
        /\ pc \in {"filter", "report", "done"} =>
               \A s \in Flagged : CountIn(file, s) = CountIn(killed.old, s) + 1

C9_Witness ==
    /\ RunReturned
    /\ killed.at \in BeforePersist
    /\ \E s \in Flagged : CountIn(killed.old, s) >= 1

\* C10: at every point where a run can be killed the state file holds a whole
\* document (the old one or the new one), never an empty or partial one.
C10_StoreAlwaysWhole ==
    /\ file.kind \in {"missing", "doc"}
    /\ file = startFile \/ file = DocOf(state) \/ pc \in Resting

\* C11: when two invocations both load the state file before either saves,
\* a symbol flagged by both ends with the old count plus one, not plus two:
\* one of the two increments is lost.
BothLoadedFirst ==
    /\ procs # <<>>
    /\ \A p \in Procs : procs[p].pc = "done" /\ procs[p].seen = {}
FlaggedByBoth == SymbolsOf(procs[1].sigs) \cap SymbolsOf(procs[2].sigs)

C11_LostUpdate ==
    (BothLoadedFirst /\ file.kind = "doc") =>
        \A s \in FlaggedByBoth : CountIn(file, s) = CountIn(startFile, s) + 1

C11_Witness ==
    /\ BothLoadedFirst
    /\ file.kind = "doc"
    /\ \E s \in FlaggedByBoth :
           /\ CountIn(startFile, s) >= 1
           /\ CountIn(file, s) = CountIn(startFile, s) + 1

\* detection ran on the database of det and its list is still as returned
Detected == det # <<>> /\ pc = "load"
\* the positions of all_flagged that hold a signal of symbol s
SignalsOf(s) == {i \in 1..Len(all_flagged) : all_flagged[i].symbol = s}
\* the watchlist symbols without a row in the history window
Absent == {s \in Symbols : /\ \E k \in 1..Len(det.watchlist) : det.watchlist[k] = s
                           /\ SymbolData(det.db, s) = <<>>}
ZeroAvg(sec) == sec.avg_volume.sum = 0

\* C12: a symbol with a no-data signal has no stale or penny signal in the
\* same detection run.
C12_NoDataExcludesStalePenny ==
    Detected =>
        \A i, j \in 1..Len(all_flagged) :
            (all_flagged[i].symbol = all_flagged[j].symbol /\ all_flagged[i].is_no_data)
                => (~all_flagged[j].is_stale_price /\ ~all_flagged[j].is_penny_stock)

\* the one no-data signal of an absent symbol
OneNoDataSignal(s) ==
    /\ Cardinality(SignalsOf(s)) = 1
    /\ \A i \in SignalsOf(s) :
           /\ all_flagged[i].is_no_data
           /\ all_flagged[i].risk_level = "HIGH"
           /\ all_flagged[i].price = 0
           /\ ZeroAvg(all_flagged[i])

\* C13 as stated: an absent watchlist symbol gets exactly one HIGH no-data
\* signal with zero price and volume, placed before every signal of a symbol
\* that has data.
C13_NoDataFirst ==
    Detected =>
        \A s \in Absent :
            /\ OneNoDataSignal(s)
            /\ \A i \in SignalsOf(s), j \in 1..Len(all_flagged) :
                   all_flagged[j].symbol \in DbSymbols(det.db) => i < j

\* C13 amended: when detection runs on at least 5 trading dates, the signal
\* is placed before every signal that is not HIGH or has a positive average
\* volume (only HIGH signals with zero average volume can come before it).
C13_NoDataBeforeLargerKeys ==
    (Detected /\ Cardinality(RecentDates(det.db)) >= 5) =>
        \A s \in Absent :
            /\ OneNoDataSignal(s)
            /\ \A i \in SignalsOf(s), j \in 1..Len(all_flagged) :
                   (all_flagged[j].risk_level # "HIGH" \/ ~ZeroAvg(all_flagged[j]))
                       => i < j

C13_Witness ==
    /\ Detected
    /\ Cardinality(RecentDates(det.db)) >= 5
    /\ \E s \in Absent : \E i \in SignalsOf(s) :
           /\ i < Len(all_flagged)
           /\ all_flagged[i + 1].symbol \in DbSymbols(det.db)
           /\ all_flagged[i + 1].risk_level = "HIGH"
           /\ ~ZeroAvg(all_flagged[i + 1])

\* closes[k] and closes[k+1] differ by less than the tolerance
Within(closes, k) == Abs(closes[k + 1] - closes[k]) < PRICE_TOLERANCE
\* positions i..j are a run of adjacent same-price observations
IsRun(closes, i, j) == \A k \in i..(j - 1) : Within(closes, k)
LongestRun(closes) ==
    SetMax({j - i + 1 : i \in 1..Len(closes), j \in 1..Len(closes)} \cap
           {n \in 1..Len(closes) :
               \E i \in 1..Len(closes) :
                   i + n - 1 <= Len(closes) /\ IsRun(closes, i, i + n - 1)})
\* i..j is the only place where adjacent closes match
OnlyRun(closes, i, j) ==
    /\ i < j
    /\ \A k \in 1..(Len(closes) - 1) : Within(closes, k) <=> (i <= k /\ k < j)

\* C14: max_consecutive is the length of the longest run of adjacent closes
\* within tolerance: 1 and not stale when no adjacent pair matches, exactly L
\* and stale when the only matching run has length L >= 5.
C14_MaxConsecutiveIsLongestRun ==
    (series # <<>> /\ series.scanned) =>
        LET closes == series.closes IN
        /\ series.max_consecutive = LongestRun(closes)
        /\ series.is_stale <=> LongestRun(closes) >= STALE_DAYS_THRESHOLD
        /\ (\A k \in 1..(Len(closes) - 1) : ~Within(closes, k))
               => (series.max_consecutive = 1 /\ ~series.is_stale)
        /\ \A i, j \in 1..Len(closes) :
               (OnlyRun(closes, i, j) /\ j - i + 1 >= STALE_DAYS_THRESHOLD)
                   => (series.max_consecutive = j - i + 1 /\ series.is_stale)

C14_Witness ==
    /\ series # <<>> /\ series.scanned
    /\ Len(series.closes) > STALE_DAYS_THRESHOLD
    /\ OnlyRun(series.closes, 2, 1 + STALE_DAYS_THRESHOLD)
    /\ series.max_consecutive = STALE_DAYS_THRESHOLD
    /\ series.is_stale
    /\ series.closes[2] # series.closes[3]

\* the run of det is on a business day with fewer than 5 trading dates
Insufficient ==
    /\ det # <<>>
    /\ det.db.exists
    /\ ~(Weekday(today) \in {5, 6})
    /\ Cardinality(RecentDates(det.db)) < 5

\* C15: a business-day run on fewer than 5 distinct trading dates detects
\* nothing and the pipeline returns a report with no confirmed security; the
\* run raises only if the state file cannot be read or written.
C15_InsufficientHistoryEmpty ==
    Insufficient =>
        /\ all_flagged = <<>>
        /\ confirmed = <<>>
        /\ pc = "done" => result = "report"
        /\ pc = "raised" => (~Readable(startFile) \/ result = "OSError")

C15_Witness ==
    /\ Insufficient
    /\ pc = "done"
    /\ AllDates(det.db) # {}
    /\ det.watchlist # <<>>
    /\ Tracked(startFile) # {}

\* C16: a missing price database (or watchlist) makes detection return an
\* empty result; no error propagates.
C16_MissingSourceRecovered ==
    (det # <<>> /\ (~det.db.exists \/ det.watchlist = <<>>)) => pc # "raised"

\* C17: an unreadable state file is treated as the empty state: the run is
\* not aborted and every flagged symbol is written with count 1.
C17_CorruptStateIsEmpty ==
    (det # <<>> /\ det.db.exists /\ ~Readable(startFile)) =>
        /\ pc = "raised" => result = "OSError"
        /\ pc = "done" => \A s \in Flagged : CountIn(file, s) = 1

\* C18: when writing the state file fails the error reaches the caller: the
\* invocation ends raised, with no confirmed list and no report.
C18_WriteFailureSurfaces ==
    /\ result = "OSError" => (pc = "raised" /\ confirmed = <<>>)
    /\ pc = "raised" => result # "report"

C18_Witness ==
    /\ result = "OSError"
    /\ pc = "raised"
    /\ file.kind \in {"empty", "partial"}
    /\ Tracked(startFile) # {}

\* ---- the ordered rules of the validation classifier, as a rule list
\* features of the rows of a symbol, latest first
RowPrice(rows) == rows[1].close
RowZeroDays(rows) == Cardinality({i \in 1..Len(rows) : rows[i].volume = 0})
RowRun(rows) == LongestRun([i \in 1..Len(rows) |-> rows[i].close])
RowLowVolume(rows) == SumSeq([i \in 1..Len(rows) |-> rows[i].volume]) < 10000 * Len(rows)
\* the rules that match, by position in the ordered list
MatchingRules(rows) ==
    IF rows = <<>> THEN {1}
    ELSE {k \in 2..9 :
            CASE k = 2 -> RowPrice(rows) < 20
              [] k = 3 -> RowZeroDays(rows) >= 5
              [] k = 4 -> RowPrice(rows) < 200
              [] k = 5 -> RowPrice(rows) < 20000 /\ RowLowVolume(rows)
              [] k = 6 -> RowPrice(rows) < 20000
              [] k = 7 -> RowRun(rows) >= 10
              [] k = 8 -> RowRun(rows) >= 3
              [] k = 9 -> TRUE}
RuleStatus == <<"DELISTED", "DELISTED", "SUSPENDED", "DELISTED", "AT_RISK",
                "PENNY_STOCK", "SUSPICIOUS", "MONITOR", "ACTIVE">>
FirstMatch(rows) == RuleStatus[SetMin(MatchingRules(rows))]

PrimaryDone == val # <<>> /\ val.pc = "done" /\ val.db = "ok"

\* C19: with the history source available the classifier gives the status
\* of the first matching rule of the ordered list (no rows, < 0.001, >= 5
\* zero-volume days, < 0.01, < 1.00 with low volume, < 1.00, run >= 10,
\* run >= 3, otherwise ACTIVE).
C19_FirstMatchingRule ==
    PrimaryDone => val.result.status = FirstMatch(val.rows)

C19_Witness ==
    /\ PrimaryDone
    /\ val.rows # <<>>
    /\ RowPrice(val.rows) = 100
    /\ RowZeroDays(val.rows) = 5
    /\ val.result.status = "SUSPENDED"

\* the ordered rules without the no-rows and zero-volume rules, on the
\* price, average volume and same-price run of a report entry
ReducedStatus(e) ==
    IF e.price < 20 THEN "DELISTED"
    ELSE IF e.price < 200 THEN "DELISTED"
    ELSE IF e.price < 20000 /\ e.avg_volume.sum < 10000 * e.avg_volume.n
    THEN "AT_RISK"
    ELSE IF e.price < 20000 THEN "PENNY_STOCK"
    ELSE IF e.consecutive_days >= 10 THEN "SUSPICIOUS"
    ELSE IF e.consecutive_days >= 3 THEN "MONITOR"
    ELSE "ACTIVE"

\* C20: without the history source, the status of a report entry is what the
\* ordered rules give for its price, average volume and run, the zero-volume
\* rule left out.
C20_FallbackIsReducedPrimary ==
    (val # <<>> /\ val.pc = "done" /\ val.db = "missing" /\ val.entry # None)
        => val.result.status = ReducedStatus(val.entry)

\* the batch loop is over
BatchValidated == batch # <<>> /\ batch.pc \in {"saved", "done", "raised"}
\* the calls of the batch in which the database access raised
Faulty == {k \in 1..Len(batch.items) : batch.items[k].db = "fault"}

\* C21: a failure inside one call gives that symbol status ERROR, and the
\* batch still returns one result per security, in input order, the others
\* being what their own call returns.
C21_FailureCaughtPerSymbol ==
    /\ (batch # <<>> /\ batch.pc = "raised") => batch.i > Len(batch.items)
    /\ BatchValidated =>
           /\ Len(batch.validation_results) = Len(batch.items)
           /\ \A k \in 1..Len(batch.items) :
                  LET item == batch.items[k] IN
                  IF k \in Faulty
                  THEN batch.validation_results[k].status \in {"ERROR", "UNKNOWN"}
                  ELSE batch.validation_results[k] =
                           validate_security_status(item.security.symbol, item.db,
                                                    item.rows, item.security)

C21_Witness ==
    /\ BatchValidated
    /\ Len(batch.items) = MaxBatch
    /\ 1 \in Faulty
    /\ MaxBatch \notin Faulty
    /\ batch.validation_results[1].status = "ERROR"
    /\ batch.validation_results[MaxBatch].status = "ACTIVE"

\* the log holds at most one entry per symbol
OneEntryPerSymbol ==
    \A i, k \in 1..Len(log.removals) :
        log.removals[i].symbol = log.removals[k].symbol => i = k
\* a call keeps every entry where it was, and adds nothing for a symbol that
\* was already logged
EntriesKept ==
    /\ Len(log'.removals) >= Len(log.removals)
    /\ \A i \in 1..Len(log.removals) : log'.removals[i] = log.removals[i]
    /\ log'.call.symbol \in LoggedSymbols(log.removals)
           => log'.removals = log.removals

\* C22: after any sequence of log_removal calls the log has at most one
\* entry per symbol, and a call never modifies, reorders or removes an entry;
\* logging a symbol already present changes nothing.
C22_FirstWriteWins ==
    /\ [](log # <<>> => OneEntryPerSymbol)
    /\ [][EntriesKept]_vars

C22_Witness ==
    /\ log # <<>>
    /\ Len(log.removals) >= 2
    /\ log.calls > Len(log.removals)
    /\ \E i \in 1..Len(log.removals) :
           /\ log.removals[i].symbol = log.call.symbol
           /\ log.removals[i].status # log.call.status
           /\ log.removals[i].reason # log.call.reason

\* ---- what the data of sig is, by the definitions of the flags
SigCloses == [i \in 1..Len(sig.data) |-> sig.data[i].close]
SigLast == sig.data[Len(sig.data)].close
SigExtreme == SigLast < 200
SigPenny == SigLast < 20000
SigStale == LongestRun(SigCloses) >= sig.stale_days_threshold
SigZeroDays == Cardinality({i \in 1..Len(sig.data) : sig.data[i].volume = 0})
SigLowVolume ==
    SumSeq([i \in 1..Len(sig.data) |-> sig.data[i].volume]) < 1000 * Len(sig.data)
SigDone == sig # <<>> /\ sig.done

\* the risk rules that match, by position in the ordered list
MatchingTiers ==
    {k \in 1..5 :
        CASE k = 1 -> SigExtreme \/ SigZeroDays >= 2
          [] k = 2 -> SigPenny /\ SigLowVolume
          [] k = 3 -> SigPenny
          [] k = 4 -> SigStale /\ SigLowVolume
          [] k = 5 -> TRUE}
TierOf == <<"HIGH", "HIGH", "MEDIUM", "MEDIUM", "LOW">>

\* closes [1.00, 1.00, 1.00, 1.00, 0.95], stale threshold 3, average volume
\* not below the low-volume threshold
PennyAfterRun ==
    /\ SigCloses = <<20000, 20000, 20000, 20000, 19000>>
    /\ sig.stale_days_threshold = 3
    /\ ~SigLowVolume

\* C23: the risk tier of a flagged symbol with data is that of the first
\* matching rule of the ordered list; closes [1.00 x 4, 0.95] with stale
\* threshold 3 and no low volume give a run of 4, stale, penny and MEDIUM.
C23_RiskTierFirstMatch ==
    SigDone =>
        /\ \A i \in 1..Len(sig.signals) :
               sig.signals[i].risk_level = TierOf[SetMin(MatchingTiers)]
        /\ (PennyAfterRun /\ SigZeroDays < 2) =>
               /\ Len(sig.signals) = 1
               /\ sig.signals[1].consecutive_days = 4
               /\ sig.signals[1].is_stale_price
               /\ sig.signals[1].is_penny_stock
               /\ sig.signals[1].risk_level = "MEDIUM"

C23_Witness ==
    /\ SigDone
    /\ PennyAfterRun
    /\ Len(sig.signals) = 1
    /\ sig.signals[1].risk_level = "MEDIUM"

\* the messages in their fixed order, and the ones that apply
ReasonOrder == <<"Extreme penny stock", "Penny stock",
                 "consecutive days same price", "zero-volume days">>
ReasonsDue ==
    {k \in 1..4 :
        CASE k = 1 -> SigExtreme
          [] k = 2 -> ~SigExtreme /\ SigPenny
          [] k = 3 -> SigStale
          [] k = 4 -> SigZeroDays >= 2}
\* the k-th message that applies
DueAt(i) == CHOOSE k \in ReasonsDue : Cardinality({m \in ReasonsDue : m <= k}) = i

\* C24: every signal has a non-empty reason list; for a symbol with data the
\* reasons are, in this order, the extreme-penny or else penny message, the
\* stale-run message iff stale, the zero-volume message iff >= 2 zero-volume
\* days; a symbol neither stale nor penny gets no signal.
C24_ReasonsInFixedOrder ==
    /\ \A e \in ReportEntries : e.reasons # <<>>
    /\ SigDone =>
           /\ (~SigStale /\ ~SigPenny) <=> sig.signals = <<>>
           /\ \A i \in 1..Len(sig.signals) :
                  LET reasons == sig.signals[i].reasons IN
                  /\ reasons # <<>>
                  /\ Len(reasons) = Cardinality(ReasonsDue)
                  /\ \A r \in 1..Len(reasons) : reasons[r] = ReasonOrder[DueAt(r)]

C24_Witness ==
    /\ SigDone
    /\ Len(sig.signals) = 1
    /\ sig.signals[1].reasons = <<"Penny stock", "consecutive days same price",
                                  "zero-volume days">>

\* C25: for 0.01 <= price < 1.00 and fewer than 5 zero-volume days the
\* classifier gives AT_RISK iff the average volume is below the detection
\* engine's LOW_VOLUME_THRESHOLD, and PENNY_STOCK otherwise.
C25_AtRiskUsesLowVolumeThreshold ==
    (/\ PrimaryDone
     /\ val.rows # <<>>
     /\ RowPrice(val.rows) >= 200
     /\ RowPrice(val.rows) < 20000
     /\ RowZeroDays(val.rows) < 5) =>
        IF AvgBelow(Mean(MapField(val.rows, "volume")), LOW_VOLUME_THRESHOLD)
        THEN val.result.status = "AT_RISK"
        ELSE val.result.status = "PENNY_STOCK"

\* the state file of the run has been written
Persisted == pc \in {"filter", "report", "done"}

\* C26: a business-day run with fewer than 5 trading dates still runs the
\* confirmation: every tracked symbol is written with count 0 and reason
\* 'Recovered' and last_run becomes today; a weekend run leaves the store
\* as it was.
C26_InsufficientHistoryResetsCounts ==
    /\ (Insufficient /\ Persisted) =>
           /\ file.kind = "doc"
           /\ file.last_run = Isoformat(today)
           /\ Tracked(startFile) \subseteq Tracked(file)
           /\ \A s \in Tracked(startFile) :
                  /\ file.failure_counts[s].count = 0
                  /\ file.failure_counts[s].reason = <<"Recovered">>
    /\ (det # <<>> /\ Weekday(today) \in {5, 6}) =>
           (file = startFile /\ pc \in {"idle", "done"})

C26_Witness ==
    /\ Insufficient
    /\ pc = "done"
    /\ AllDates(det.db) # {}
    /\ \E s \in Tracked(startFile) :
           /\ CountIn(startFile, s) > 0
           /\ CountIn(file, s) = 0

\* the symbols with more than one signal in the run's list
FlaggedTwice ==
    {s \in Symbols :
        \E i, k \in 1..Len(all_flagged) :
            i # k /\ all_flagged[i].symbol = s /\ all_flagged[k].symbol = s}

\* C27: a confirmation run writes, for each flagged symbol, its stored count
\* plus one, whatever the number of signals of that symbol in the list.
C27_OneIncrementPerSymbol ==
    (det # <<>> /\ Persisted) =>
        \A s \in Flagged : CountIn(file, s) = CountIn(startFile, s) + 1

C27_Witness ==
    /\ det # <<>>
    /\ pc = "done"
    /\ \E s \in FlaggedTwice :
           /\ CountIn(startFile, s) >= 1
           /\ CountIn(file, s) = CountIn(startFile, s) + 1

\* the kill points after save_tracking_state returned
AfterPersist == {"filter", "report"}

\* C28: a run killed after save_tracking_state completed and re-invoked the
\* same day leaves each symbol flagged by both runs with the count of one
\* uninterrupted run: the count before the killed run plus one.
C28_KillAfterPersistNoDoubleCount ==
    (/\ killed.at \in AfterPersist
     /\ Persisted
     /\ startFile.last_run = Isoformat(today)) =>
        \A s \in Flagged :
            CountIn(startFile, s) = CountIn(killed.old, s) + 1
                => CountIn(file, s) = CountIn(killed.old, s) + 1

\* C29: every result of validate_security_status carries the symbol it was
\* asked about, and logging the DELISTED results never fails.
C29_ResultsCarrySymbol ==
    batch # <<>> =>
        /\ \A k \in 1..Len(batch.validation_results) :
               /\ "symbol" \in DOMAIN batch.validation_results[k]
               /\ batch.validation_results[k].symbol = batch.items[k].security.symbol
        /\ batch.pc # "raised"

TypeOK ==
    /\ today \in StartDay..MaxDay
    /\ pc \in {"idle", "done", "raised", "killed", "load", "update", "open",
               "dump", "filter", "report"}
    /\ file.kind \in {"missing", "empty", "partial", "doc"}

====
